---- MODULE Spec2Model ----
(***************************************************************************)
(* Tracked-asset lifecycle and price resolution of test-task1.            *)
(*                                                                         *)
(* The current storage package is the one whose text sits in              *)
(* src/README.md, lines 160-507 (Storage with ActiveCoins, Shutdwn, wg,   *)
(* mutex; UpdateCache / GetFromCache on Redis sorted sets); the tests in  *)
(* src/internal/storage/storage.go, lines 364-552, exercise that version. *)
(*                                                                         *)
(* Steps.  A Collector goroutine is a process with one step per     *)
(* blocking call (select, SaveCurrency, UpdateCache).  AddCurrency and    *)
(* RemoveCurrency take the registry mutex in one step and run their body  *)
(* in a second one.  Shutdown is close(Shutdwn), then wg.Wait() with the  *)
(* two Close calls.  GetPrice and one UpdateCache pipeline are one step   *)
(* each.  Redis maxmemory eviction and Redis/Postgres transport errors    *)
(* before Shutdown are not modelled, except the failure of the INSERT in  *)
(* SaveCurrency.  A handler's use of kraken_api.KrakenPairs is one step:   *)
(* requests whose accesses to that map overlap are not modelled.          *)
(***************************************************************************)
EXTENDS Integers, Sequences, FiniteSets, TLC

\* ------------------------------------------------------------------ bounds
\* The assets clients name and the prices the source quotes.
CoinNames == <<"BTC", "ETH">>
Coins == {CoinNames[i] : i \in DOMAIN CoinNames}
\* A price is int + frac * 10^-7 (frac in 0..9999999); float64 holds these.
Prices == {[int |-> 50000, frac |-> 0], [int |-> 50100, frac |-> 0]}
\* A price with seven decimals, 0.1234567.
FinePrices == {[int |-> 0, frac |-> 1234567]}
\* One price, for the specifications in which prices play no part.
OnePrice == {[int |-> 50000, frac |-> 0]}
\* Collector goroutines (one stop channel each) ever started plus steps of
\* the wall clock, in the lifecycle runs and in the runs with queries.
MaxEvents == 3
ResolveEvents == 2
\* For the scenarios over a longer time: Collectors ever started, clock
\* steps, and samples (rows, cache members, samples in hand) held at one time.
ScenarioChans == 1
ScenarioAdvances == 3
ScenarioSamples == 2
\* For the runs over the retention window: Collectors ever started, clock
\* steps, samples held at one time.
RetentionChans == 1
RetentionAdvances == 3
RetentionSamples == 1
\* For the runs under fair scheduling: Collectors ever started plus clock
\* steps.
FairEvents == 2
\* For the runs through the HTTP handlers: Collectors ever started plus
\* clock steps.
HandlerEvents == 2
\* For the runs that call the exported methods of Storage one by one:
\* samples held at one time plus clock steps.
StoreEvents == 3
\* The clock at construction, unix seconds.
StartTime == 20000
\* The timestamps clients query, as offsets from StartTime.
QueryOffsets == {9, 10, 400}

\* The assets Kraken lists, in the runs through the handlers.
KrakenListed == {"BTC"}

\* ------------------------------------------------------- program constants
\* http.StatusOK, http.StatusNotFound
StatusOK == 200
StatusNotFound == 404
cacheTTL == 600
priceUpdateInterval == 5
dataRetention == 14400
\* The source's cap is 100; the model scales it so that cap + 1 assets fit.
maxTokenCount == 1
\* GetFromCache's band and GetPrice's cache-fill band, seconds.
cacheBand == 300
fillBand == 300

\* Seconds the clock moves in one step, each at least priceUpdateInterval.
TimeSteps == {priceUpdateInterval}

\* Clock steps that reach the end of the retention window.
RetentionSteps == {priceUpdateInterval, 2 * priceUpdateInterval,
                   dataRetention - priceUpdateInterval}

ChanIds == 1..MaxEvents
QueryTimes == {StartTime + k : k \in QueryOffsets}
NoChan == 0
NoPrice == [int |-> 0, frac |-> 0]

VARIABLES
    ActiveCoins,  \* Storage.ActiveCoins: coin -> its stop channel, or NoChan
    stopChan,     \* each stop channel: "open" | "closed" | "panic" (closed twice)
    coll,         \* each Collector goroutine: pc, coin, len(ticker.C), sample in hand
    wg,           \* Storage.wg counter
    mutex,        \* Storage.mutex: Free, or the call that holds it
    Shutdwn,      \* Storage.Shutdwn: "open" | "closed" | "panic"
    sd,           \* Shutdown(): "running" (not called) | "waiting" | "done"
    connOpen,     \* DB and Redis connections open
    now,          \* wall clock, unix seconds
    advances,     \* clock steps taken
    db,           \* table currencies: rows [coin, price, ts]
    zset,         \* Redis key token:<coin>: members [ts, f] (score ts)
    expireAt,     \* Redis expiry of token:<coin>; 0 when the key is absent
    lru,          \* Redis key token:lru: coin -> score, or NoScore
    last          \* the call that returned in the last step, with its result

vars == <<ActiveCoins, stopChan, coll, wg, mutex, Shutdwn, sd, connOpen,
          now, advances, db, zset, expireAt, lru, last>>

registry == <<ActiveCoins, stopChan, coll, wg>>
redis == <<zset, expireAt, lru>>

NoScore == -1

\* ------------------------------------------------------------------ helpers
abs(n) == IF n < 0 THEN -n ELSE n

Free == [op |-> "free", coin |-> ""]
Holder(op, coin) == [op |-> op, coin |-> coin]

\* close(ch): closing a closed channel panics.
Close(ch) == IF ch = "open" THEN "closed" ELSE "panic"

Unborn == [pc |-> "unborn", coin |-> "", tick |-> 0, price |-> NoPrice, ts |-> 0]

\* models.PriceRequest.Timestamp (*int64): nil, or a timestamp; NoRequest
\* for a call of Storage.GetPrice that no handler made.
NoRequest == [kind |-> "none", ts |-> 0]
Absent == [kind |-> "absent", ts |-> 0]
Given(timestamp) == [kind |-> "given", ts |-> timestamp]

\* The result record of the call that returned in the last step.
NoCall == [op |-> "none", coin |-> "", t |-> 0, ok |-> TRUE, price |-> NoPrice,
           ts |-> 0, src |-> "none", prev |-> "none", noop |-> FALSE,
           req |-> NoRequest]

Returned(op, coin, noop) ==
    [op |-> op, coin |-> coin, t |-> 0, ok |-> TRUE, price |-> NoPrice,
     ts |-> 0, src |-> "none", prev |-> "none", noop |-> noop,
     req |-> NoRequest]

\* The handler's answer to a request that ended as r: c.Status(200) or
\* c.JSON(200, ...), else c.JSON(404, ...).
HttpStatus(r) == IF r.ok THEN StatusOK ELSE StatusNotFound

TypeOK ==
    /\ ActiveCoins \in [Coins -> ChanIds \cup {NoChan}]
    /\ stopChan \in [ChanIds -> {"open", "closed", "panic"}]
    /\ \A i \in ChanIds : coll[i].pc \in {"unborn", "select", "save", "update", "exited"}
    /\ wg \in Nat
    /\ Shutdwn \in {"open", "closed", "panic"}
    /\ sd \in {"running", "waiting", "done"}
    /\ connOpen \in BOOLEAN
    /\ now \in Nat
    /\ \A r \in db : r.coin \in Coins /\ r.price \in Prices \cup FinePrices
    /\ \A c \in Coins : lru[c] \in Nat \cup {NoScore}

Init ==
    /\ ActiveCoins = [c \in Coins |-> NoChan]
    /\ stopChan = [i \in ChanIds |-> "open"]
    /\ coll = [i \in ChanIds |-> Unborn]
    /\ wg = 0
    /\ mutex = Free
    /\ Shutdwn = "open"
    /\ sd = "running"
    /\ connOpen = TRUE
    /\ now = StartTime
    /\ advances = 0
    /\ db = {}
    /\ zset = [c \in Coins |-> {}]
    /\ expireAt = [c \in Coins |-> 0]
    /\ lru = [c \in Coins |-> NoScore]
    /\ last = NoCall

\* ------------------------------------------------- Redis member encoding
\* fmt.Sprintf("%f", price): six decimals, rounded (the model's prices avoid
\* the half-way case, where the float's binary expansion decides).
FormatF(price) ==
    LET micro == (price.frac + 5) \div 10
    IN  IF micro = 1000000 THEN [int |-> price.int + 1, micro |-> 0]
        ELSE [int |-> price.int, micro |-> micro]

\* fmt.Sprintf("%d:%f", timestamp, price), kept as its three numbers.
Member(ts, price) ==
    LET f == FormatF(price) IN [ts |-> ts, int |-> f.int, micro |-> f.micro]

\* strconv.ParseFloat(splitMember(member)[1], 64)
ParseFloat(m) == [int |-> m.int, frac |-> m.micro * 10]

RECURSIVE Digits(_)
Digits(n) == IF n < 10 THEN <<48 + n>> ELSE Append(Digits(n \div 10), 48 + (n % 10))

Pad6(n) == [k \in 1..6 |-> 48 + ((n \div (10 ^ (6 - k))) % 10)]

\* The bytes of the member string "<ts>:<int>.<micro>".
MemberStr(m) == Digits(m.ts) \o <<58>> \o Digits(m.int) \o <<46>> \o Pad6(m.micro)

\* Byte-wise string order, as Redis orders members of equal score.
LexLess(s, t) ==
    \E k \in 1..(Len(s) + 1) :
        /\ \A j \in 1..(k - 1) : j <= Len(t) /\ s[j] = t[j]
        /\ \/ k = Len(s) + 1 /\ Len(t) >= k
           \/ k <= Len(s) /\ k <= Len(t) /\ s[k] < t[k]

\* Sorted-set order: by score, then by member bytes.
ZLess(m1, m2) ==
    \/ m1.ts < m2.ts
    \/ m1.ts = m2.ts /\ LexLess(MemberStr(m1), MemberStr(m2))

\* The last member of the reply, members[len(members)-1].
First_Last(members) == CHOOSE m \in members : \A o \in members \ {m} : ZLess(o, m)

\* members[0] of a non-empty ZRangeByScore reply.
First(members) == CHOOSE m \in members : \A o \in members \ {m} : ZLess(m, o)

\* The three Redis structures as one value.
Redis == [zset |-> zset, expireAt |-> expireAt, lru |-> lru]

\* Result() of a command queued on a go-redis Pipeline that has not been
\* Exec'ed: the zero value and a nil error.
PipelinedResult(v) == 0

ZCard(l) == Cardinality({c \in Coins : l[c] # NoScore})

CoinRank(c) == CHOOSE i \in DOMAIN CoinNames : CoinNames[i] = c

\* ZPOPMIN token:lru 1
ZPopMin(l) ==
    LET in == {c \in Coins : l[c] # NoScore}
    IN  IF in = {} THEN l
        ELSE LET m == CHOOSE c \in in : \A o \in in \ {c} :
                          \/ l[c] < l[o]
                          \/ l[c] = l[o] /\ CoinRank(c) < CoinRank(o)
             IN  [l EXCEPT ![m] = NoScore]

\* ZREMRANGEBYSCORE key 0 (now - dataRetention): both ends inclusive.
Pruned(ts) == ts >= 0 /\ ts <= now - dataRetention

\* UpdateCache's pipeline applied to the Redis value R.
UpdateCache(R, coin, price, timestamp) ==
    LET added == R.zset[coin] \cup {Member(timestamp, price)}
        kept == {m \in added : ~Pruned(m.ts)}
        l1 == [R.lru EXCEPT ![coin] = now]
        count == PipelinedResult(ZCard(l1))
    IN  [zset |-> [R.zset EXCEPT ![coin] = kept],
         expireAt |-> [R.expireAt EXCEPT ![coin] =
                          IF kept = {} THEN 0 ELSE now + cacheTTL],
         lru |-> IF count > maxTokenCount THEN ZPopMin(l1) ELSE l1]

\* ZRANGEBYSCORE key (timestamp-300) (timestamp+300)
InBand(timestamp, ts) == ts >= timestamp - cacheBand /\ ts <= timestamp + cacheBand

GetFromCache(coin, timestamp) ==
    LET members == IF connOpen
                   THEN {m \in zset[coin] : InBand(timestamp, m.ts)}
                   ELSE {}
    IN  IF members = {} THEN [err |-> TRUE, price |-> NoPrice, ts |-> 0]
        ELSE [err |-> FALSE, price |-> ParseFloat(First(members)),
              ts |-> First(members).ts]

\* getFromDB taking sql.ErrNoRows for a row of zeroes.
getFromDB_IgnoreNoRows(coin, timestamp) ==
    LET rows == {r \in db : r.coin = coin}
    IN  IF ~connOpen \/ rows = {}
        THEN {[err |-> FALSE, price |-> NoPrice, ts |-> 0]}
        ELSE {[err |-> FALSE, price |-> r.price, ts |-> r.ts] :
                 r \in {x \in rows : \A y \in rows :
                           abs(x.ts - timestamp) <= abs(y.ts - timestamp)}}

\* getFromDB answering for the assets in ActiveCoins only.
getFromDB_TrackedOnly(coin, timestamp) ==
    LET rows == {r \in db : r.coin = coin /\ ActiveCoins[coin] # NoChan}
    IN  IF ~connOpen \/ rows = {}
        THEN {[err |-> TRUE, price |-> NoPrice, ts |-> 0]}
        ELSE {[err |-> FALSE, price |-> r.price, ts |-> r.ts] :
                 r \in {x \in rows : \A y \in rows :
                           abs(x.ts - timestamp) <= abs(y.ts - timestamp)}}

\* SELECT price, timestamp FROM currencies WHERE coin = $1
\* ORDER BY ABS(timestamp - $2) LIMIT 1: the possible (price, timestamp, err).
\* SQL leaves the order of rows with equal sort keys open.
getFromDB(coin, timestamp) ==
    LET rows == {r \in db : r.coin = coin}
    IN  IF ~connOpen \/ rows = {}
        THEN {[err |-> TRUE, price |-> NoPrice, ts |-> 0]}
        ELSE {[err |-> FALSE, price |-> r.price, ts |-> r.ts] :
                 r \in {x \in rows : \A y \in rows :
                           abs(x.ts - timestamp) <= abs(y.ts - timestamp)}}

\* if abs(timestamp-dbTimestamp) <= 300 { s.UpdateCache(...) }
FillAllowed(timestamp, dbTimestamp) == abs(timestamp - dbTimestamp) <= fillBand

\* --------------------------------------------------------------- registry
\* AddCurrency without its look-up of the map.
AlreadyTracked_Never(coin) == FALSE

\* if _, exists := s.ActiveCoins[coin]; exists { return }
AlreadyTracked(coin) == ActiveCoins[coin] # NoChan

\* RemoveCurrency without its look-up of the map.
Tracked_Always(coin) == TRUE

\* if stopChan, exists := s.ActiveCoins[coin]; exists
Tracked(coin) == ActiveCoins[coin] # NoChan

Born == Cardinality({i \in ChanIds : coll[i].pc # "unborn"})

Live(i) == coll[i].pc \in {"select", "save", "update"}

\* Shutdown without its wg.Wait().
WaitDone_NoWait == TRUE

\* wg.Wait() returns
WaitDone == wg = 0

\* The samples the system holds: rows, cache members, samples in hand.
Samples ==
    {[coin |-> r.coin, ts |-> r.ts, int |-> Member(r.ts, r.price).int,
      micro |-> Member(r.ts, r.price).micro] : r \in db}
    \cup UNION {{[coin |-> c, ts |-> m.ts, int |-> m.int, micro |-> m.micro] :
                    m \in zset[c]} : c \in Coins}
    \cup {[coin |-> coll[i].coin, ts |-> coll[i].ts,
           int |-> Member(coll[i].ts, coll[i].price).int,
           micro |-> Member(coll[i].ts, coll[i].price).micro] :
             i \in {j \in ChanIds : coll[j].pc \in {"save", "update"}}}

\* ---------------------------------------------------------------- actions
\* Shutdown is deferred in main until the HTTP server has stopped
\* (src/README.md:80, 152), so no handler call starts once it has begun; the
\* calls and the Collectors in flight go on.
Serving == sd = "running"

AddCurrencyLock(coin) ==
    /\ Serving
    /\ mutex = Free
    /\ mutex' = Holder("AddCurrency", coin)
    /\ last' = NoCall
    /\ UNCHANGED <<registry, Shutdwn, sd, connOpen, now, advances, db, redis>>

AddCurrencyBody(coin) ==
    /\ mutex = Holder("AddCurrency", coin)
    /\ IF AlreadyTracked(coin)
       THEN /\ UNCHANGED registry
            /\ last' = Returned("AddCurrency", coin, TRUE)
       ELSE LET ch == Born + 1
            IN  /\ ActiveCoins' = [ActiveCoins EXCEPT ![coin] = ch]
                /\ coll' = [coll EXCEPT ![ch] =
                              [Unborn EXCEPT !.pc = "select", !.coin = coin]]
                /\ wg' = wg + 1
                /\ last' = Returned("AddCurrency", coin, FALSE)
                /\ UNCHANGED stopChan
    /\ mutex' = Free
    /\ UNCHANGED <<Shutdwn, sd, connOpen, now, advances, db, redis>>

RemoveCurrencyLock(coin) ==
    /\ Serving
    /\ mutex = Free
    /\ mutex' = Holder("RemoveCurrency", coin)
    /\ last' = NoCall
    /\ UNCHANGED <<registry, Shutdwn, sd, connOpen, now, advances, db, redis>>

\* RemoveCurrency without its delete of the map entry.
Deleted_Kept(coin) == ActiveCoins

\* delete(s.ActiveCoins, coin)
Deleted(coin) == [ActiveCoins EXCEPT ![coin] = NoChan]

\* RemoveCurrency that also deletes the asset's rows.
RowsAfterRemove_Delete(coin) == {r \in db : r.coin # coin}

\* RemoveCurrency sends no statement to the table currencies.
RowsAfterRemove(coin) == db

RemoveCurrencyBody(coin) ==
    /\ mutex = Holder("RemoveCurrency", coin)
    /\ IF Tracked(coin)
       THEN /\ stopChan' = [stopChan EXCEPT ![ActiveCoins[coin]] = Close(@)]
            /\ ActiveCoins' = Deleted(coin)
            /\ IF connOpen
               THEN /\ lru' = [lru EXCEPT ![coin] = NoScore]
                    /\ zset' = [zset EXCEPT ![coin] = {}]
                    /\ expireAt' = [expireAt EXCEPT ![coin] = 0]
               ELSE UNCHANGED redis
            /\ db' = RowsAfterRemove(coin)
            /\ last' = Returned("RemoveCurrency", coin, FALSE)
       ELSE /\ UNCHANGED <<ActiveCoins, stopChan, redis, db>>
            /\ last' = Returned("RemoveCurrency", coin, TRUE)
    /\ mutex' = Free
    /\ UNCHANGED <<coll, wg, Shutdwn, sd, connOpen, now, advances>>

\* A Collector whose channels are looked at while it writes.
AtSelect_Anywhere(i) == coll[i].pc \in {"select", "save", "update"}

\* for { select { ... } }: the goroutine receives from ticker.C, stopChan
\* and s.Shutdwn only here, between two passes of the loop.
AtSelect(i) == coll[i].pc = "select"

\* A failed fetch ending the goroutine's loop.
AfterFetchErr_Return == "exited"

\* if err != nil { log.Printf(...); continue }: back to the select.
AfterFetchErr == "select"

\* case <-ticker.C with kraken.GetPrice(coin) failing: log, continue
CollectorFetchErr(i) ==
    /\ AtSelect(i)
    /\ coll[i].tick = 1
    /\ coll' = [coll EXCEPT ![i] = [@ EXCEPT !.pc = AfterFetchErr, !.tick = 0]]
    /\ last' = Returned("FetchFailed", coll[i].coin, FALSE)
    /\ UNCHANGED <<ActiveCoins, stopChan, wg, mutex, Shutdwn, sd, connOpen,
                   now, advances, db, redis>>

\* case <-ticker.C with kraken.GetPrice(coin) returning price, then
\* timestamp := time.Now().Unix()
CollectorFetch(i, price) ==
    /\ AtSelect(i)
    /\ coll[i].tick = 1
    /\ coll' = [coll EXCEPT ![i] = [@ EXCEPT !.pc = "save", !.price = price,
                                            !.ts = now, !.tick = 0]]
    /\ last' = NoCall
    /\ UNCHANGED <<ActiveCoins, stopChan, wg, mutex, Shutdwn, sd, connOpen,
                   now, advances, db, redis>>

\* A Collector that has no case for s.Shutdwn.
Signalled_StopOnly(i) == stopChan[i] = "closed"

\* case <-stopChan, case <-s.Shutdwn: one of the two channels is closed.
Signalled(i) == stopChan[i] = "closed" \/ Shutdwn = "closed"

\* case <-stopChan / case <-s.Shutdwn: return, then the deferred wg.Done().
\* Go's select takes any one of the ready cases, so a pending tick may be
\* taken instead (CollectorFetch, CollectorFetchErr).
CollectorExit(i) ==
    /\ AtSelect(i)
    /\ Signalled(i)
    /\ coll' = [coll EXCEPT ![i] = [Unborn EXCEPT !.pc = "exited"]]
    /\ wg' = wg - 1
    /\ last' = NoCall
    /\ UNCHANGED <<ActiveCoins, stopChan, mutex, Shutdwn, sd, connOpen,
                   now, advances, db, redis>>

\* SaveCurrency's INSERT; a failure is logged and dropped.
Insert(row, inserted) == IF connOpen /\ inserted THEN db \cup {row} ELSE db

\* A Collector that ends when its INSERT fails.
AfterSave_StopOnError(inserted) == IF inserted THEN "update" ELSE "exited"

\* SaveCurrency returns nothing: s.UpdateCache(...) is the next statement
\* whatever became of the INSERT.
AfterSave(inserted) == "update"

\* s.SaveCurrency(coin, price, timestamp)
CollectorSave(i, inserted) ==
    /\ coll[i].pc = "save"
    /\ db' = Insert([coin |-> coll[i].coin, price |-> coll[i].price,
                     ts |-> coll[i].ts], inserted)
    /\ coll' = [coll EXCEPT ![i].pc = AfterSave(inserted)]
    /\ last' = NoCall
    /\ UNCHANGED <<ActiveCoins, stopChan, wg, mutex, Shutdwn, sd, connOpen,
                   now, advances, redis>>

\* s.UpdateCache(coin, price, timestamp), back to the select
CollectorUpdate(i) ==
    /\ coll[i].pc = "update"
    /\ LET R == IF connOpen
                THEN UpdateCache(Redis, coll[i].coin, coll[i].price, coll[i].ts)
                ELSE Redis
       IN  /\ zset' = R.zset
           /\ expireAt' = R.expireAt
           /\ lru' = R.lru
    /\ coll' = [coll EXCEPT ![i] = [@ EXCEPT !.pc = "select", !.price = NoPrice,
                                            !.ts = 0]]
    /\ last' = NoCall
    /\ UNCHANGED <<ActiveCoins, stopChan, wg, mutex, Shutdwn, sd, connOpen,
                   now, advances, db>>

\* The src of an immediately preceding successful GetPrice(coin, timestamp).
PrevSrc(coin, timestamp) ==
    IF last.op = "GetPrice" /\ last.coin = coin /\ last.t = timestamp /\ last.ok
    THEN last.src ELSE "none"

GetPriceResult(coin, timestamp, ok, price, ts, src) ==
    [op |-> "GetPrice", coin |-> coin, t |-> timestamp, ok |-> ok,
     price |-> price, ts |-> ts, src |-> src,
     prev |-> PrevSrc(coin, timestamp), noop |-> FALSE, req |-> NoRequest]

\* Storage.GetPrice(coin, timestamp), called for the request req.
GetPriceFor(coin, timestamp, req) ==
    LET c == GetFromCache(coin, timestamp)
    IN  /\ Serving
        /\ IF ~c.err
           THEN /\ last' = [GetPriceResult(coin, timestamp, TRUE, c.price, c.ts,
                                               "cache") EXCEPT !.req = req]
                /\ UNCHANGED redis
           ELSE \E r \in getFromDB(coin, timestamp) :
                  IF r.err
                  THEN /\ last' = [GetPriceResult(coin, timestamp, FALSE, NoPrice, 0,
                                                      "none") EXCEPT !.req = req]
                       /\ UNCHANGED redis
                  ELSE LET R1 == [Redis EXCEPT !.lru[coin] = now]
                           R2 == IF FillAllowed(timestamp, r.ts)
                                 THEN UpdateCache(R1, coin, r.price, r.ts)
                                 ELSE R1
                       IN  /\ zset' = R2.zset
                           /\ expireAt' = R2.expireAt
                           /\ lru' = R2.lru
                           /\ last' = [GetPriceResult(coin, timestamp, TRUE,
                                                      r.price, r.ts, "db")
                                          EXCEPT !.req = req]
        /\ UNCHANGED <<registry, mutex, Shutdwn, sd, connOpen, now, advances, db>>

GetPrice(coin, timestamp) == GetPriceFor(coin, timestamp, NoRequest)

\* ------------------------------------- the exported methods, called alone
\* s.SaveCurrency(coin, price, timestamp), as TestSaveCurrency calls it
SaveCurrencyCall(coin, price, timestamp, inserted) ==
    /\ Serving
    /\ db' = Insert([coin |-> coin, price |-> price, ts |-> timestamp], inserted)
    /\ last' = Returned("SaveCurrency", coin, FALSE)
    /\ UNCHANGED <<registry, mutex, Shutdwn, sd, connOpen, now, advances, redis>>

\* s.UpdateCache(coin, price, timestamp), as TestCacheOperations calls it
UpdateCacheCall(coin, price, timestamp) ==
    /\ Serving
    /\ LET R == UpdateCache(Redis, coin, price, timestamp)
       IN  /\ zset' = R.zset
           /\ expireAt' = R.expireAt
           /\ lru' = R.lru
    /\ last' = Returned("UpdateCache", coin, FALSE)
    /\ UNCHANGED <<registry, mutex, Shutdwn, sd, connOpen, now, advances, db>>

\* s.GetFromCache(ctx, "token:"+coin, timestamp), as TestCacheOperations
\* calls it: the price and the error it returns.
GetFromCacheCall(coin, timestamp) ==
    LET c == GetFromCache(coin, timestamp)
    IN  /\ Serving
        /\ last' = [Returned("GetFromCache", coin, FALSE) EXCEPT
                       !.t = timestamp, !.ok = ~c.err, !.price = c.price]
        /\ UNCHANGED <<registry, mutex, Shutdwn, sd, connOpen, now, advances,
                       db, redis>>

\* ---------------------------------------------------------- HTTP handlers
\* The handler's look-up of the map with the asset accepted whatever it is.
Supported_Any(coin, pairs) == TRUE

\* if _, ok := kraken_api.KrakenPairs[req.Coin]; !ok { 404 }
Supported(coin, pairs) == coin \in pairs

\* CurrencyHandler.AddCurrency: InitKrakenPairs() leaves the keys pairs in
\* KrakenPairs (none while no listing could be loaded); an asset not among
\* them is answered 404, else storage.AddCurrency(coin) is called (200
\* follows its return).
HandleAddCurrency(coin, pairs) ==
    IF Supported(coin, pairs)
    THEN AddCurrencyLock(coin)
    ELSE /\ Serving
         /\ last' = [Returned("AddCurrencyRequest", coin, TRUE) EXCEPT !.ok = FALSE]
         /\ UNCHANGED <<registry, mutex, Shutdwn, sd, connOpen, now, advances,
                        db, redis>>

\* The handler with the time of the request for a missing timestamp left out.
RequestTimestamp_Zero(req) == req.ts

\* timestamp := time.Now().Unix(); if req.Timestamp != nil { timestamp = *req.Timestamp }
RequestTimestamp(req) == IF req.kind = "absent" THEN now ELSE req.ts

\* CurrencyHandler.GetPrice: h.storage.GetPrice(req.Coin, timestamp), then
\* 404 on an error, else 200 with {coin, price, timestamp}.
HandleGetPrice(coin, req) == GetPriceFor(coin, RequestTimestamp(req), req)

\* Shutdown that also closes the stop channel of every entry of ActiveCoins.
ChansAfterShutdown_CloseAll ==
    [i \in ChanIds |->
        IF \E c \in Coins : ActiveCoins[c] = i THEN Close(stopChan[i])
        ELSE stopChan[i]]

\* Shutdown closes s.Shutdwn and no other channel.
ChansAfterShutdown == stopChan

\* Shutdown(): close(s.Shutdwn)
ShutdownClose ==
    /\ sd = "running"
    /\ Shutdwn' = Close(Shutdwn)
    /\ stopChan' = ChansAfterShutdown
    /\ sd' = "waiting"
    /\ last' = NoCall
    /\ UNCHANGED <<ActiveCoins, coll, wg, mutex, connOpen, now, advances, db, redis>>

\* Shutdown(): s.wg.Wait(), s.DB.Close(), s.Redis.Close()
ShutdownWait ==
    /\ sd = "waiting"
    /\ WaitDone
    /\ connOpen' = FALSE
    /\ sd' = "done"
    /\ last' = NoCall
    /\ UNCHANGED <<registry, mutex, Shutdwn, now, advances, db, redis>>

\* The clock moves by d >= priceUpdateInterval: every running ticker sends a
\* tick (its channel holds one; a second is dropped), and Redis drops the
\* keys whose expiry has come.
Advance(d) ==
    /\ now' = now + d
    /\ advances' = advances + 1
    /\ coll' = [i \in ChanIds |->
                   IF Live(i) THEN [coll[i] EXCEPT !.tick = 1] ELSE coll[i]]
    /\ zset' = [c \in Coins |->
                   IF expireAt[c] # 0 /\ expireAt[c] <= now + d THEN {} ELSE zset[c]]
    /\ expireAt' = [c \in Coins |->
                       IF expireAt[c] # 0 /\ expireAt[c] <= now + d THEN 0
                       ELSE expireAt[c]]
    /\ last' = NoCall
    /\ UNCHANGED <<ActiveCoins, stopChan, wg, mutex, Shutdwn, sd, connOpen, db, lru>>

\* ---------------------------------------------------------- specifications
\* The handler calls AddCurrency and RemoveCurrency, at most chans
\* Collectors ever started.
Registry(chans) ==
    \/ \E c \in Coins : (ActiveCoins[c] # NoChan \/ Born < chans) /\ AddCurrencyLock(c)
    \/ \E c \in Coins : AddCurrencyBody(c)
    \/ \E c \in Coins : RemoveCurrencyLock(c)
    \/ \E c \in Coins : RemoveCurrencyBody(c)

\* The Collector goroutines, the source quoting prices, at most samples
\* samples held at one time, the INSERT ending as one of outcomes.
Collectors(prices, samples, outcomes) ==
    \/ \E i \in ChanIds : CollectorFetchErr(i)
    \/ \E i \in ChanIds, p \in prices :
          Cardinality(Samples) < samples /\ CollectorFetch(i, p)
    \/ \E i \in ChanIds : CollectorExit(i)
    \/ \E i \in ChanIds, inserted \in outcomes : CollectorSave(i, inserted)
    \/ \E i \in ChanIds : CollectorUpdate(i)

Clock(steps) == \E d \in TimeSteps : advances < steps /\ Advance(d)

ClockIn(ds, steps) == \E d \in ds : advances < steps /\ Advance(d)

Queries(times) == \E c \in Coins, t \in times : GetPrice(c, t)

ShutdownSteps == ShutdownClose \/ ShutdownWait

\* The INSERT of SaveCurrency succeeds; it succeeds or fails.
InsertDone == {TRUE}
InsertOutcomes == BOOLEAN

\* More samples than can exist after so many clock steps.
AnySamples(steps) == Cardinality(Coins) * Cardinality(Prices) * steps + 1

\* Registry, Collectors and Shutdown, one price, no failing INSERT while the
\* store is open, no query.
NextLifecycle ==
    \/ Registry(MaxEvents - advances)
    \/ Collectors(OnePrice, AnySamples(MaxEvents), InsertDone)
    \/ Clock(MaxEvents - Born)
    \/ ShutdownSteps

SpecLifecycle == Init /\ [][NextLifecycle]_vars

\* Registry, Collectors and queries, no Shutdown.
NextResolve ==
    \/ Registry(ResolveEvents - advances)
    \/ Collectors(OnePrice, AnySamples(ResolveEvents), InsertOutcomes)
    \/ Clock(ResolveEvents - Born)
    \/ Queries(QueryTimes)

SpecResolve == Init /\ [][NextResolve]_vars

\* One tracked asset over a longer time, two prices, queries, no Shutdown.
NextScenario ==
    \/ Registry(ScenarioChans)
    \/ Collectors(Prices, ScenarioSamples, InsertOutcomes)
    \/ Clock(ScenarioAdvances)
    \/ Queries(QueryTimes)

SpecScenario == Init /\ [][NextScenario]_vars

\* No Collector is between its fetch and the end of its cache update.
NoWriteInFlight == \A i \in ChanIds : coll[i].pc \notin {"save", "update"}

\* The requests the handlers serve, at most chans Collectors ever started.
Handlers(chans, times) ==
    \/ \E c \in Coins, pairs \in {{}, KrakenListed} :
          (ActiveCoins[c] # NoChan \/ Born < chans) /\ HandleAddCurrency(c, pairs)
    \/ \E c \in Coins : AddCurrencyBody(c)
    \/ \E c \in Coins : RemoveCurrencyLock(c)
    \/ \E c \in Coins : RemoveCurrencyBody(c)
    \/ \E c \in Coins, req \in {Absent} \cup {Given(t) : t \in times} :
          HandleGetPrice(c, req)

\* Everything reached through the HTTP handlers, no Shutdown.
NextHandlers ==
    \/ Handlers(HandlerEvents - advances, QueryTimes)
    \/ Collectors(OnePrice, AnySamples(HandlerEvents), InsertOutcomes)
    \/ Clock(HandlerEvents - Born)

SpecHandlers == Init /\ [][NextHandlers]_vars

\* One tracked asset, clock steps as long as the retention window (a
\* Collector ends its writes before the next one), queries.
NextRetention ==
    \/ Registry(RetentionChans)
    \/ Collectors(OnePrice, RetentionSamples, InsertDone)
    \/ NoWriteInFlight /\ ClockIn(RetentionSteps, RetentionAdvances)
    \/ Queries(QueryTimes)

SpecRetention == Init /\ [][NextRetention]_vars

\* One tracked asset quoted with seven decimals, queries.
NextFinePrice ==
    \/ Registry(ScenarioChans)
    \/ Collectors(FinePrices, ScenarioSamples, InsertDone)
    \/ Clock(ScenarioAdvances)
    \/ Queries(QueryTimes)

SpecFinePrice == Init /\ [][NextFinePrice]_vars

\* Registry and Collectors over several ticks, the INSERT succeeding or
\* failing, no query, no Shutdown.
NextCollect ==
    \/ Registry(MaxEvents - advances)
    \/ Collectors(OnePrice, AnySamples(MaxEvents), InsertOutcomes)
    \/ Clock(MaxEvents - Born)

SpecCollect == Init /\ [][NextCollect]_vars

\* The exported methods called one by one with the time of the call, as the
\* tests of the package call them, at most samples samples held at one time.
Calls(samples) ==
    \/ \E c \in Coins, p \in Prices, inserted \in InsertOutcomes :
          Cardinality(Samples) < samples /\ SaveCurrencyCall(c, p, now, inserted)
    \/ \E c \in Coins, p \in Prices :
          Cardinality(Samples) < samples /\ UpdateCacheCall(c, p, now)
    \/ \E c \in Coins, t \in QueryTimes : GetFromCacheCall(c, t)

NextStore ==
    \/ Calls(StoreEvents - advances)
    \/ Queries(QueryTimes)
    \/ Clock(StoreEvents - Cardinality(Samples))

SpecStore == Init /\ [][NextStore]_vars

\* Registry, Collectors and Shutdown, one price, no failing INSERT while the
\* store is open.
NextFair ==
    \/ Registry(FairEvents - advances)
    \/ Collectors(OnePrice, AnySamples(FairEvents), InsertDone)
    \/ Clock(FairEvents - Born)
    \/ ShutdownSteps

\* Every call returns: a call that holds the mutex runs its body, a
\* Collector's SaveCurrency and UpdateCache return, and wg.Wait() returns once
\* the counter is zero.  A select that finds a closed channel ready again and
\* again takes it in the end, Go choosing among the ready cases at random.
Fairness ==
    /\ \A c \in Coins : WF_vars(AddCurrencyBody(c)) /\ WF_vars(RemoveCurrencyBody(c))
    /\ \A i \in ChanIds :
          /\ WF_vars(\E inserted \in InsertDone : CollectorSave(i, inserted))
          /\ WF_vars(CollectorUpdate(i))
          /\ SF_vars(CollectorExit(i))
    /\ WF_vars(ShutdownWait)

SpecFair == Init /\ [][NextFair]_vars /\ Fairness

\* Everything.
Next ==
    \/ Registry(MaxEvents - advances)
    \/ Collectors(Prices, AnySamples(MaxEvents), InsertOutcomes)
    \/ Clock(MaxEvents - Born)
    \/ Queries(QueryTimes)
    \/ ShutdownSteps

Spec == Init /\ [][Next]_vars

\* ------------------------------------------------------------------ claims
Writing(i) == coll[i].pc \in {"save", "update"}

\* Collector i inserts a row or changes the cache in this step.
WritesBy(i) ==
    \/ coll[i].pc = "save" /\ coll'[i].pc = "update" /\ db' # db
    \/ /\ coll[i].pc = "update" /\ coll'[i].pc = "select"
       /\ <<zset, expireAt, lru>>' # <<zset, expireAt, lru>>

\* C1: once RemoveCurrency(a) has returned (a's stop channel is closed), the
\* cancelled Collector of a inserts no row and writes no cache entry.
C1_NoWriteAfterUnregister ==
    [][\A i \in ChanIds : stopChan[i] = "closed" => ~WritesBy(i)]_vars

\* C2: every asset has at most one Collector that has not exited.
C2_OneLiveCollector ==
    \A c \in Coins : Cardinality({i \in ChanIds : Live(i) /\ coll[i].coin = c}) <= 1

\* C3: AddCurrency(a) called while a has an entry in ActiveCoins starts no
\* Collector, keeps a's stop channel and leaves the registry as it is.
C3_RegisterIdempotent ==
    [][\A c \in Coins :
          (mutex = Holder("AddCurrency", c) /\ mutex' = Free
              /\ ActiveCoins[c] # NoChan)
          => UNCHANGED <<ActiveCoins, stopChan, coll, wg>>]_vars

\* An AddCurrency of a tracked asset has returned.
C3_Witness == last.op = "AddCurrency" /\ last.noop

\* C4: Shutdown returns, and closes the connections, only when every
\* Collector started so far has exited; after it has returned no row is
\* inserted and the cache is not written.
C4_ShutdownWaitsForCollectors ==
    [][/\ (sd = "waiting" /\ sd' = "done") => \A i \in ChanIds : ~Live(i)
       /\ (connOpen /\ ~connOpen') =>
             /\ sd = "waiting"
             /\ \A i \in ChanIds : ~Live(i)
       /\ (sd = "done" /\ now' = now) =>
             /\ db' = db
             /\ <<zset, expireAt, lru>>' = <<zset, expireAt, lru>>]_vars

\* Shutdown has returned after a Collector that wrote a sample has exited on
\* the shutdown signal.
C4_Witness ==
    /\ sd = "done"
    /\ db # {}
    /\ \E i \in ChanIds : coll[i].pc = "exited" /\ stopChan[i] = "open"

\* The samples known for coin, in the store and in the cache.
Known(coin) ==
    {[ts |-> r.ts, price |-> r.price] : r \in {x \in db : x.coin = coin}}
    \cup {[ts |-> m.ts, price |-> ParseFloat(m)] : m \in zset[coin]}

Nearest(coin, t) ==
    {s \in Known(coin) : \A o \in Known(coin) : abs(s.ts - t) <= abs(o.ts - t)}

\* C5: a successful GetPrice(a, t), no write being in flight, returns the
\* price of a sample of a whose timestamp is nearest to t among those known.
C5_ResolveReturnsNearest ==
    (last.op = "GetPrice" /\ last.ok /\ NoWriteInFlight)
    => \E s \in Nearest(last.coin, last.t) : s.price = last.price

\* C6: when two known samples of a are nearest to t at equal distance, a
\* successful GetPrice(a, t) returns the price of the earlier one.
C6_TieSmallerTimestamp ==
    (last.op = "GetPrice" /\ last.ok /\ NoWriteInFlight)
    => \A s1, s2 \in Nearest(last.coin, last.t) :
          s1.ts < s2.ts => last.price = s1.price

\* C7: GetPrice(a, t) with no sample of a in the cache or the store returns
\* price 0 and an error, and changes neither cache, ranking, store nor
\* registry.
C7_NotFoundChangesNothing ==
    [][\A c \in Coins :
          (last'.op = "GetPrice" /\ last'.coin = c /\ Known(c) = {})
          => /\ ~last'.ok
             /\ last'.price = NoPrice
             /\ UNCHANGED <<zset, expireAt, lru, db, ActiveCoins, stopChan,
                            coll, wg>>]_vars

\* A GetPrice has failed.
C7_Witness == last.op = "GetPrice" /\ ~last.ok /\ Known(last.coin) = {}

\* C8: a GetPrice(a, t) that follows at once a GetPrice(a, t) served from
\* the store is served from the cache.
C8_CacheFillRoundTrip ==
    (last.op = "GetPrice" /\ last.prev = "db") => (last.ok /\ last.src = "cache")

\* C9: at most maxTokenCount assets have a cache entry.
C9_CacheCapBound ==
    Cardinality({c \in Coins : zset[c] # {}}) <= maxTokenCount

\* C10: a GetPrice served from the cache refreshes the asset's recency marker.
C10_ReadRefreshesRecency ==
    (last.op = "GetPrice" /\ last.ok /\ last.src = "cache") => lru[last.coin] = now

\* C11: a sample GetPrice returns from the cache is no older than
\* now - dataRetention.
C11_CacheReadWithinRetention ==
    (last.op = "GetPrice" /\ last.ok /\ last.src = "cache")
    => last.ts >= now - dataRetention

\* C12: while the handlers serve, an asset with no entry in ActiveCoins
\* (never added, or removed and not added again) has no cache entry and no
\* member of token:lru, no query being made.
C12_UnregisterEvictsForGood ==
    \A c \in Coins :
        (sd = "running" /\ ActiveCoins[c] = NoChan)
        => (zset[c] = {} /\ lru[c] = NoScore)

\* C13: no step removes or changes a row of currencies, and GetPrice(a, t)
\* succeeds whenever a has a row, tracked or not.
C13_RemovalKeepsHistory ==
    [][/\ db \subseteq db'
       /\ \A c \in Coins :
             (last'.op = "GetPrice" /\ last'.coin = c /\ \E r \in db : r.coin = c)
             => last'.ok]_vars

\* A GetPrice of a removed asset has been served from the store.
C13_Witness ==
    /\ last.op = "GetPrice" /\ last.ok /\ last.src = "db"
    /\ ActiveCoins[last.coin] = NoChan
    /\ \E i \in ChanIds : stopChan[i] = "closed"

\* C14: a tick whose fetch fails changes neither the store nor the cache,
\* and leaves its Collector running, at its select, as it was before the
\* tick.
C14_FetchFailureSkipsTick ==
    [][last'.op = "FetchFailed" =>
          /\ db' = db
          /\ <<zset, expireAt, lru>>' = <<zset, expireAt, lru>>
          /\ \A i \in ChanIds :
                coll'[i] # coll[i] =>
                   /\ coll[i].pc = "select"
                   /\ coll'[i] = [coll[i] EXCEPT !.tick = 0]
                   /\ Live(i)']_vars

\* A fetch has failed after the same asset's sample of an earlier tick was
\* stored, and its Collector waits for the next tick.
C14_Witness ==
    /\ last.op = "FetchFailed"
    /\ \E r \in db : r.coin = last.coin /\ r.ts < now
    /\ \E i \in ChanIds : coll[i].coin = last.coin /\ coll[i].pc = "select"

\* C15: when AddCurrency(c) has returned c has an entry in ActiveCoins; when
\* RemoveCurrency(c) has returned it has none; a stop channel in the map is
\* open, and none is ever closed twice.
C15_RegistryMapFollowsCalls ==
    /\ last.op = "AddCurrency" => ActiveCoins[last.coin] # NoChan
    /\ last.op = "RemoveCurrency" => ActiveCoins[last.coin] = NoChan
    /\ \A c \in Coins : ActiveCoins[c] # NoChan => stopChan[ActiveCoins[c]] = "open"
    /\ \A i \in ChanIds : stopChan[i] # "panic"

\* RemoveCurrency of a tracked asset has returned while the other asset is
\* tracked.
C15_Witness ==
    /\ last.op = "RemoveCurrency" /\ ~last.noop
    /\ \E i \in ChanIds : stopChan[i] = "closed"
    /\ \E c \in Coins \ {last.coin} : ActiveCoins[c] # NoChan

\* C16: when a Collector's UpdateCache(coin, p, t) has run, t inside the
\* retention window, GetFromCache for coin at t succeeds and returns p.
C16_UpdateThenGetFromCache ==
    [][\A i \in ChanIds : \A c \in {coll[i].coin} : \A t \in {coll[i].ts} :
          \A p \in {coll[i].price} :
             (coll[i].pc = "update" /\ coll'[i].pc = "select" /\ connOpen
                 /\ ~Pruned(t))
             => (~GetFromCache(c, t).err /\ GetFromCache(c, t).price = p)']_vars

\* C17: RemoveCurrency(a) of an asset with no entry in ActiveCoins closes no
\* channel and changes neither the registry, the cache, the ranking nor the
\* store.
C17_UnregisterUntrackedNoOp ==
    [][\A c \in Coins :
          (mutex = Holder("RemoveCurrency", c) /\ mutex' = Free
              /\ ActiveCoins[c] = NoChan)
          => UNCHANGED <<ActiveCoins, stopChan, coll, wg, zset, expireAt, lru,
                         db>>]_vars

\* RemoveCurrency of an untracked asset has returned, the asset having a
\* cache entry (made by a GetPrice served from the store).
C17_Witness ==
    /\ last.op = "RemoveCurrency" /\ last.noop
    /\ zset[last.coin] # {}
    /\ lru[last.coin] # NoScore

\* C18: a request to add an asset that is not a key of KrakenPairs is
\* answered 404 and calls nothing; no such asset ever has an entry in
\* ActiveCoins, a call of AddCurrency in progress, or a Collector.
C18_UnsupportedAssetRejected ==
    [][\A c \in Coins \ KrakenListed :
          /\ ActiveCoins'[c] = NoChan
          /\ mutex' # Holder("AddCurrency", c)
          /\ \A i \in ChanIds : coll'[i].coin # c
          /\ (last'.op = "AddCurrencyRequest" /\ last'.coin = c)
             => /\ HttpStatus(last') = StatusNotFound
                /\ UNCHANGED <<ActiveCoins, stopChan, coll, wg, mutex, db,
                               zset, expireAt, lru>>]_vars

\* A request to add an unlisted asset has been refused while a listed one is
\* tracked.
C18_Witness ==
    /\ last.op = "AddCurrencyRequest" /\ ~last.ok
    /\ last.coin \notin KrakenListed
    /\ \E c \in KrakenListed : ActiveCoins[c] # NoChan

\* C19: a price request without a timestamp calls GetPrice with the time of
\* the request, one with a timestamp calls it with that timestamp, and a
\* failed GetPrice is answered 404.
C19_QueryTimestampDefault ==
    (last.op = "GetPrice" /\ last.req.kind # "none")
    => /\ last.t = (IF last.req.kind = "absent" THEN now ELSE last.req.ts)
       /\ ~last.ok => HttpStatus(last) = StatusNotFound
       /\ last.ok => HttpStatus(last) = StatusOK

\* A price request without a timestamp has been answered with a price, some
\* time after construction.
C19_Witness ==
    /\ last.op = "GetPrice" /\ last.req.kind = "absent"
    /\ last.ok
    /\ now > StartTime

\* C20: the price a successful GetPrice returns for a sample is the price
\* stored for that sample (same asset, same timestamp), no write being in
\* flight.
C20_PricePassedThrough ==
    (last.op = "GetPrice" /\ last.ok /\ NoWriteInFlight)
    => \A r \in db :
          (r.coin = last.coin /\ r.ts = last.ts) => last.price = r.price

\* C21: a Collector at its select whose stop channel or the shutdown channel
\* is closed takes no tick: its next step is its exit, and until then it
\* stays at the select with its tick undelivered.
C21_StopWinsRace ==
    [][\A i \in ChanIds :
          (coll[i].pc = "select" /\ (stopChan[i] = "closed" \/ Shutdwn = "closed"))
          => \/ coll'[i].pc = "exited"
             \/ coll'[i].pc = "select" /\ coll'[i].tick >= coll[i].tick]_vars

\* C22: a GetPrice served from the cache leaves the asset's cache entry with
\* the full cacheTTL to live.
C22_ReadRefreshesExpiry ==
    (last.op = "GetPrice" /\ last.ok /\ last.src = "cache")
    => expireAt[last.coin] = now + cacheTTL

\* The row of the sample Collector i has in hand.
RowInHand(i) == [coin |-> coll[i].coin, price |-> coll[i].price, ts |-> coll[i].ts]

\* C23: whatever becomes of its INSERT, a Collector's SaveCurrency hands no
\* result to anyone, leaves the registry as it is and is followed by the
\* cache update of the same sample, from which the Collector returns to its
\* select, running.
C23_InsertFailureDropped ==
    [][\A i \in ChanIds :
          /\ (coll[i].pc = "save" /\ coll'[i].pc # "save")
             => /\ coll'[i] = [coll[i] EXCEPT !.pc = "update"]
                /\ db' \in {db, db \cup {RowInHand(i)}}
                /\ last' = NoCall
                /\ UNCHANGED <<ActiveCoins, stopChan, wg, mutex>>
          /\ (coll[i].pc = "update" /\ coll'[i].pc # "update")
             => /\ coll'[i].pc = "select"
                /\ UNCHANGED <<ActiveCoins, stopChan, wg, mutex>>]_vars

\* A Collector has fetched on a later tick after the INSERT of its earlier
\* sample failed: that sample is in the cache and the table has no row.
C23_Witness ==
    /\ db = {}
    /\ \E i \in ChanIds :
          /\ coll[i].pc = "save"
          /\ \E m \in zset[coll[i].coin] : m.ts < coll[i].ts

\* C24: a Collector with a sample in hand keeps that sample and does
\* nothing but insert it and then write it to the cache: from the fetch it
\* goes to the INSERT, from there to the cache update, from there to its
\* select, and only at the select does it take a tick or a stop; a row
\* enters the table only as the sample in hand of a Collector at its INSERT,
\* and the cache update that follows writes that same sample.
C24_CollectorWritesInOrder ==
    [][/\ \A i \in ChanIds :
             /\ (coll[i].pc = "select" /\ coll'[i].pc # "select")
                => coll'[i].pc \in {"save", "exited"}
             /\ coll[i].pc = "save"
                => /\ coll'[i].pc \in {"save", "update"}
                   /\ RowInHand(i)' = RowInHand(i)
             /\ coll[i].pc = "update"
                => /\ coll'[i].pc \in {"update", "select"}
                   /\ coll'[i].pc = "update" => RowInHand(i)' = RowInHand(i)
                   /\ (coll'[i].pc = "select" /\ connOpen /\ ~Pruned(coll[i].ts))
                      => Member(coll[i].ts, coll[i].price) \in zset'[coll[i].coin]
       /\ db' # db
          => \E j \in ChanIds :
                /\ coll[j].pc = "save" /\ coll'[j].pc = "update"
                /\ db' = db \cup {RowInHand(j)}]_vars

\* A Collector has stored and cached the samples of two ticks.
C24_Witness ==
    \E i \in ChanIds :
        /\ coll[i].pc = "select"
        /\ \E r1, r2 \in db :
              /\ r1.coin = coll[i].coin /\ r2.coin = coll[i].coin
              /\ r1.ts < r2.ts
              /\ Member(r1.ts, r1.price) \in zset[coll[i].coin]
              /\ Member(r2.ts, r2.price) \in zset[coll[i].coin]

\* C25: the call that holds the registry mutex changes the map and starts or
\* stops a Collector, and no more: the step in which it runs its body and
\* unlocks writes neither the cache, the ranking nor the table.
C25_LockOnlyForMap ==
    [][\A c \in Coins :
          (mutex \in {Holder("AddCurrency", c), Holder("RemoveCurrency", c)}
              /\ mutex' = Free)
          => UNCHANGED <<zset, expireAt, lru, db>>]_vars

\* C26: every entry of ActiveCoins is the stop channel of a Collector that
\* has not exited, and once Shutdown has returned ActiveCoins has no entry.
C26_EntriesHaveLiveCollector ==
    /\ \A c \in Coins : ActiveCoins[c] # NoChan => Live(ActiveCoins[c])
    /\ sd = "done" => \A c \in Coins : ActiveCoins[c] = NoChan

\* The rows of coin.
RowsOf(coin) == {r \in db : r.coin = coin}

\* C27: GetPrice(a, t) leaves ActiveCoins, the stop channels, the
\* Collectors, the mutex and the table as they are, and its answer is
\* decided by the cache and the table alone, a tracked or not: the cached
\* sample if the cache has one in the band, else a nearest row if a has a
\* row, else an error.
C27_QueryBypassesRegistry ==
    [][\A c \in Coins, t \in QueryTimes :
          (last'.op = "GetPrice" /\ last'.coin = c /\ last'.t = t)
          => /\ UNCHANGED <<ActiveCoins, stopChan, coll, wg, mutex, db>>
             /\ ~GetFromCache(c, t).err
                => /\ last'.ok /\ last'.src = "cache"
                   /\ last'.price = GetFromCache(c, t).price
                   /\ UNCHANGED <<zset, expireAt, lru>>
             /\ (GetFromCache(c, t).err /\ RowsOf(c) # {})
                => /\ last'.ok /\ last'.src = "db"
                   /\ \E r \in RowsOf(c) :
                         /\ r.price = last'.price /\ r.ts = last'.ts
                         /\ \A o \in RowsOf(c) : abs(r.ts - t) <= abs(o.ts - t)
             /\ (GetFromCache(c, t).err /\ RowsOf(c) = {}) => ~last'.ok]_vars

\* A GetPrice of an asset with no entry in ActiveCoins has been served from
\* the table and has written the row it found to the cache.
C27_Witness ==
    /\ last.op = "GetPrice" /\ last.ok /\ last.src = "db"
    /\ ActiveCoins[last.coin] = NoChan
    /\ Member(last.ts, last.price) \in zset[last.coin]
    /\ [coin |-> last.coin, price |-> last.price, ts |-> last.ts] \in db

\* The members of token:<coin> with a score in [t - 300, t + 300].
Band(coin, t) == {m \in zset[coin] : m.ts >= t - 300 /\ m.ts <= t + 300}

C29_CachedSampleStored ==
    (last.op = "GetPrice" /\ last.ok /\ last.src = "cache")
    => [coin |-> last.coin, price |-> last.price, ts |-> last.ts] \in db

\* C30: no write being in flight, an asset is a member of token:lru exactly
\* when the key token:<asset> exists.
C30_RankingMatchesEntries ==
    NoWriteInFlight
    => \A c \in Coins : lru[c] # NoScore <=> zset[c] # {}

\* C31: no channel is closed twice: a stop channel changes only from open to
\* closed, in the RemoveCurrency that finds it in ActiveCoins and deletes
\* that entry, and s.Shutdwn only from open to closed, in Shutdown.
C31_NoDoubleClose ==
    [][/\ \A i \in ChanIds :
             /\ stopChan'[i] # "panic"
             /\ stopChan'[i] # stopChan[i]
                => /\ stopChan[i] = "open" /\ stopChan'[i] = "closed"
                   /\ \E c \in Coins :
                         /\ mutex = Holder("RemoveCurrency", c)
                         /\ ActiveCoins[c] = i
                         /\ ActiveCoins'[c] = NoChan
       /\ Shutdwn' # "panic"
       /\ Shutdwn' # Shutdwn
          => /\ Shutdwn = "open" /\ Shutdwn' = "closed"
             /\ sd = "running" /\ sd' = "waiting"]_vars

\* Shutdown has closed s.Shutdwn after an asset was added and removed twice:
\* two stop channels and the shutdown channel are closed.
C31_Witness ==
    /\ Shutdwn = "closed"
    /\ \E i, j \in ChanIds :
          /\ i # j
          /\ stopChan[i] = "closed" /\ stopChan[j] = "closed"

\* C32: under fair scheduling, a call that holds the registry mutex can
\* always run its body, whatever the Collectors do, and releases the mutex; a
\* Collector whose stop channel or the shutdown channel is closed exits, and
\* an exited Collector stays exited; Shutdown, once it has closed s.Shutdwn,
\* returns.
C32_NoDeadlock ==
    /\ [](\A c \in Coins :
            /\ mutex = Holder("AddCurrency", c) => ENABLED AddCurrencyBody(c)
            /\ mutex = Holder("RemoveCurrency", c) => ENABLED RemoveCurrencyBody(c))
    /\ (mutex # Free) ~> (mutex = Free)
    /\ \A i \in ChanIds :
          /\ (Live(i) /\ (stopChan[i] = "closed" \/ Shutdwn = "closed"))
                ~> (coll[i].pc = "exited")
          /\ [](coll[i].pc = "exited" => [](coll[i].pc = "exited"))
    /\ (sd = "waiting") ~> (sd = "done")

\* Shutdown has returned after one Collector exited on its stop channel and
\* another on the shutdown channel.
C32_Witness ==
    /\ sd = "done"
    /\ \E i, j \in ChanIds :
          /\ coll[i].pc = "exited" /\ stopChan[i] = "closed"
          /\ coll[j].pc = "exited" /\ stopChan[j] = "open"
====
